---- MODULE Spec2Model ----
(***************************************************************************)
(* Othello: bit-packed board, capture scan, negamax with alpha-beta and    *)
(* the console driver loop of src/src/main.rs.                             *)
(***************************************************************************)
EXTENDS Integers, Sequences, FiniteSets, TLC

VARIABLES
    cells,           \* Board.cells: [Player -> [0..7 -> 0..255]], one byte per row
    before,          \* the board as it was when the last operation was called
    last,            \* the last operation and its arguments
    ret,             \* the value the last operation returned
    moves,           \* number of operations so far that changed the board
    turns,           \* number of iterations of the loop of main so far
    current_player,  \* main: current_player
    machine_player,  \* main: machine_player
    game_over,       \* main: game_over
    last_passed,     \* main: last_passed
    count,           \* main: count
    overflow_checks  \* the build: whether integer overflow panics (the dev
                     \* profile) or wraps (the release profile)

vars == <<cells, before, last, ret, moves, turns,
          current_player, machine_player, game_over, last_passed, count,
          overflow_checks>>

boardVars == <<cells, before, last, ret, moves>>
driverVars == <<turns, current_player, machine_player, game_over, last_passed,
                count, overflow_checks>>

-----------------------------------------------------------------------------
(* Bounds of the model *)

\* accepted moves made on the board under Spec
MaxMoves == 4

\* iterations of the loop of main under SpecDriver
MaxTurns == 4

\* plies from the start position under SpecSearch: the moves that set the
\* board up plus the depth searched from it
SearchPlies == 3

\* depth of the search machine_play runs for each candidate (8 in main.rs);
\* the model searches this deep
MachineDepth == 1

\* edges of the windows negamax_ab is called with, besides the full window
WindowEdges == {-3, 0, 3}

-----------------------------------------------------------------------------
(* Player, Position, Direction *)

Player == {"Black", "White"}

opponent(player) == IF player = "Black" THEN "White" ELSE "Black"

Coord == 0..7

Positions == [x : Coord, y : Coord]

\* i8::saturating_add
saturating_add(a, b) ==
    IF a + b > 127 THEN 127 ELSE IF a + b < -128 THEN -128 ELSE a + b

neighbor(p, d) ==
    [x |-> saturating_add(p.x, d.dx), y |-> saturating_add(p.y, d.dy)]

is_valid(p) == p.x >= 0 /\ p.x < 8 /\ p.y >= 0 /\ p.y < 8

PLAY_DIRECTIONS ==
    << [dx |-> -1, dy |-> -1], [dx |-> -1, dy |-> 0], [dx |-> -1, dy |-> 1],
       [dx |-> 0, dy |-> -1], [dx |-> 0, dy |-> 1],
       [dx |-> 1, dy |-> -1], [dx |-> 1, dy |-> 0], [dx |-> 1, dy |-> 1] >>

-----------------------------------------------------------------------------
(* Board *)

\* row & (1 << x) != 0
BitSet(row, x) == (row \div (2 ^ x)) % 2 = 1

\* row | (1 << x)
OrBit(row, x) == IF BitSet(row, x) THEN row ELSE row + 2 ^ x

\* row & !(1 << x)
ClearBit(row, x) == IF BitSet(row, x) THEN row - 2 ^ x ELSE row

\* u8::count_ones
RECURSIVE count_ones(_)
count_ones(byte) ==
    IF byte = 0 THEN 0 ELSE (byte % 2) + count_ones(byte \div 2)

\* Board::new with the two colours exchanged
NewBoard_exchanged ==
    [pl \in Player |->
        IF pl = "White"
        THEN [y \in Coord |-> IF y = 3 THEN 16 ELSE IF y = 4 THEN 8 ELSE 0]
        ELSE [y \in Coord |-> IF y = 3 THEN 8 ELSE IF y = 4 THEN 16 ELSE 0]]

NewBoard ==
    [pl \in Player |->
        IF pl = "Black"
        THEN [y \in Coord |-> IF y = 3 THEN 16 ELSE IF y = 4 THEN 8 ELSE 0]
        ELSE [y \in Coord |-> IF y = 3 THEN 8 ELSE IF y = 4 THEN 16 ELSE 0]]

\* Option<Player>: "None" or a player
player_at(b, pos) ==
    IF BitSet(b["Black"][pos.y], pos.x) THEN "Black"
    ELSE IF BitSet(b["White"][pos.y], pos.x) THEN "White"
    ELSE "None"

player_score(b, player) ==
    count_ones(b[player][0]) + count_ones(b[player][1])
    + count_ones(b[player][2]) + count_ones(b[player][3])
    + count_ones(b[player][4]) + count_ones(b[player][5])
    + count_ones(b[player][6]) + count_ones(b[player][7])

\* heuristic without the opponent's score
heuristic_own(b, player) == player_score(b, player)

heuristic(b, player) == player_score(b, player) - player_score(b, opponent(player))

\* set_cell without its second statement: the opponent's bit stays
set_cell_keep(b, p, player) ==
    [b EXCEPT ![player][p.y] = OrBit(@, p.x)]

\* set_cell without its first statement: the mover's bit is not set
set_cell_clear(b, p, player) ==
    [b EXCEPT ![opponent(player)][p.y] = ClearBit(@, p.x)]

set_cell(b, p, player) ==
    [b EXCEPT ![player][p.y] = OrBit(@, p.x),
              ![opponent(player)][p.y] = ClearBit(@, p.x)]

\* the while loop of find_bridge_candidate: w = [pos, buf, length]
RECURSIVE BridgeWalk(_, _, _, _)
BridgeWalk(b, d, player, w) ==
    IF is_valid(w.pos) /\ player_at(b, w.pos) = opponent(player)
    THEN BridgeWalk(b, d, player,
            [pos |-> neighbor(w.pos, d),
             buf |-> [w.buf EXCEPT ![w.length] = neighbor(w.pos, d)],
             length |-> w.length + 1])
    ELSE w

\* the slice returned after the walk, asking for length > 2
BridgeSlice_min2(b, player, w) ==
    IF is_valid(w.pos) /\ player_at(b, w.pos) = player /\ w.length > 2
    THEN [buf |-> w.buf, len |-> w.length]
    ELSE [buf |-> w.buf, len |-> 0]

\* the slice returned after the walk, without the tests of the terminal cell
BridgeSlice_noedge(b, player, w) ==
    IF w.length > 1
    THEN [buf |-> w.buf, len |-> w.length]
    ELSE [buf |-> w.buf, len |-> 0]

\* the slice returned after the walk, without the test of length
BridgeSlice_any(b, player, w) ==
    IF is_valid(w.pos) /\ player_at(b, w.pos) = player
    THEN [buf |-> w.buf, len |-> w.length]
    ELSE [buf |-> w.buf, len |-> 0]

\* the slice returned after the walk: the buffer as written and the length
BridgeSlice(b, player, w) ==
    IF is_valid(w.pos) /\ player_at(b, w.pos) = player /\ w.length > 1
    THEN [buf |-> w.buf, len |-> w.length]
    ELSE [buf |-> w.buf, len |-> 0]

\* find_bridge_candidate without the occupancy test of the origin
find_bridge_candidate_nocheck(b, bridge, p, d, player, played) ==
    IF ~is_valid(p)
    THEN [buf |-> bridge, len |-> 0]
    ELSE BridgeSlice(b, player,
            BridgeWalk(b, d, player,
                [pos |-> neighbor(p, d),
                 buf |-> [bridge EXCEPT ![0] = neighbor(p, d)],
                 length |-> 1]))

\* find_bridge_candidate testing the origin whatever played is
find_bridge_candidate_strict(b, bridge, p, d, player, played) ==
    IF ~is_valid(p) \/ player_at(b, p) # "None"
    THEN [buf |-> bridge, len |-> 0]
    ELSE BridgeSlice(b, player,
            BridgeWalk(b, d, player,
                [pos |-> neighbor(p, d),
                 buf |-> [bridge EXCEPT ![0] = neighbor(p, d)],
                 length |-> 1]))

\* returns the buffer as written and the length of the slice returned
find_bridge_candidate(b, bridge, p, d, player, played) ==
    IF ~is_valid(p) \/ (~played /\ player_at(b, p) # "None")
    THEN [buf |-> bridge, len |-> 0]
    ELSE BridgeSlice(b, player,
            BridgeWalk(b, d, player,
                [pos |-> neighbor(p, d),
                 buf |-> [bridge EXCEPT ![0] = neighbor(p, d)],
                 length |-> 1]))

\* the flipping loop setting only the last position of the bridge
FlipBridge_last(b, buf, len, i, player) ==
    IF len = 0 THEN b ELSE set_cell(b, buf[len - 1], player)

\* for position in bridge.iter() { self.set_cell(*position, player) }
RECURSIVE FlipBridge(_, _, _, _, _)
FlipBridge(b, buf, len, i, player) ==
    IF i >= len THEN b
    ELSE FlipBridge(set_cell(b, buf[i], player), buf, len, i + 1, player)

RECURSIVE PlayDirs(_, _, _, _)

\* the body of the loop for the k-th direction, br being the bridge found,
\* then the directions after it: s = [cells, played, buffer]
PlayDir(s, br, p, player, k) ==
    IF br.len > 0
    THEN PlayDirs([cells |-> FlipBridge(set_cell(s.cells, p, player),
                                        br.buf, br.len, 0, player),
                   played |-> TRUE,
                   buffer |-> br.buf],
                  p, player, k + 1)
    ELSE PlayDirs([s EXCEPT !.buffer = br.buf], p, player, k + 1)

\* for dir in PLAY_DIRECTIONS.iter(), from the k-th direction on
PlayDirs(s, p, player, k) ==
    IF k > Len(PLAY_DIRECTIONS) THEN s
    ELSE PlayDir(s,
                 find_bridge_candidate(s.cells, s.buffer, p,
                                       PLAY_DIRECTIONS[k], player, s.played),
                 p, player, k)

\* let mut buffer = [Position{x: 0, y: 0}; 8]
EmptyBuffer == [i \in 0..7 |-> [x |-> 0, y |-> 0]]

\* the board after the call and the boolean returned
Played(s) == [cells |-> s.cells, played |-> s.played]

\* play_at setting the origin before any direction is scanned
play_at_marks(b, p, player) ==
    Played(PlayDirs([cells |-> set_cell(b, p, player), played |-> FALSE,
                     buffer |-> EmptyBuffer], p, player, 1))

play_at(b, p, player) ==
    Played(PlayDirs([cells |-> b, played |-> FALSE, buffer |-> EmptyBuffer],
                    p, player, 1))

-----------------------------------------------------------------------------
(* Search *)

\* i32::MIN as i64, i32::MAX as i64 and i64::MIN. TLC's integers are 32 bits
\* wide and the program's 64, so the three bounds are kept at a quarter of
\* their size: their order, their distance to every score (at most 64 in
\* absolute value) and I32_MAX = -I32_MIN - 1 are those of the program, and
\* the search only compares, negates and takes maxima of them.
I32_MIN == -(2 ^ 29)
I32_MAX == (2 ^ 29) - 1
I64_MIN == -(2 ^ 30)

\* std::cmp::max returning the lesser of the two
Max_lesser(a, b) == IF a >= b THEN b ELSE a

Max(a, b) == IF a >= b THEN a ELSE b

\* the i-th cell of: for y in 0..8 { for x in 0..8 {
CellAt(i) == [x |-> i % 8, y |-> i \div 8]

NumCells == 8 * 8

\* the cells in the order of the two loops: all x for y = 0, then y = 1, ...
CellSeq == [i \in 1..NumCells |-> CellAt(i - 1)]

\* the cells, in the order of the loops, on which child.play_at(..) is true;
\* the body of the loops does nothing on the others
Plays(board, player) ==
    LET Accepted(p) == play_at(board, p, player).played
    IN SelectSeq(CellSeq, Accepted)

RECURSIVE negamax_ab(_, _, _, _, _)
RECURSIVE ForEachNodes(_, _, _, _, _, _, _)

\* the body of the loop for a cell play_at accepts, value being what the
\* recursive call on the child returned
Visit(s, value) ==
    [score |-> Max(s.score, -value),
     alpha |-> Max(s.alpha, Max(s.score, -value)),
     terminal_node |-> FALSE]

\* the loop leaving after the first accepted cell: alpha tested against score
BreakOrNext_score(board, depth, beta, player, plays, k, s) ==
    IF s.alpha >= s.score
    THEN s
    ELSE ForEachNodes(board, depth, beta, player, plays, k + 1, s)

\* if alpha >= beta { break 'forEachNodes }
BreakOrNext(board, depth, beta, player, plays, k, s) ==
    IF s.alpha >= beta
    THEN s
    ELSE ForEachNodes(board, depth, beta, player, plays, k + 1, s)

\* the loop 'forEachNodes from the k-th accepted cell on:
\* s = [alpha, score, terminal_node]
ForEachNodes(board, depth, beta, player, plays, k, s) ==
    IF k > Len(plays) THEN s
    ELSE BreakOrNext(board, depth, beta, player, plays, k,
            Visit(s, negamax_ab(play_at(board, plays[k], player).cells,
                                depth - 1, -beta, -s.alpha, opponent(player))))

\* return score, without the test of terminal_node
Returned_score(board, player, s) == s.score

\* if terminal_node { score = board.heuristic(player) }; return score
Returned(board, player, s) ==
    IF s.terminal_node THEN heuristic(board, player) ELSE s.score

negamax_ab(board, depth, alpha, beta, player) ==
    IF depth = 0
    THEN heuristic(board, player)
    ELSE Returned(board, player,
            ForEachNodes(board, depth, beta, player, Plays(board, player), 1,
                         [alpha |-> alpha, score |-> I32_MIN,
                          terminal_node |-> TRUE]))

negamax(board, depth, player) ==
    negamax_ab(board, depth, I32_MIN, I32_MAX, player)

NoPlay == [x |-> -1, y |-> -1]

\* the comparison of machine_play taken as score >= best_score
Better_last(s, score, position) ==
    IF score >= s.best_score
    THEN [best_score |-> score, best_play |-> position]
    ELSE s

\* if score > best_score { best_score = score; best_play = Some(position) }
Better(s, score, position) ==
    IF score > s.best_score
    THEN [best_score |-> score, best_play |-> position]
    ELSE s

\* the loops of machine_play from the k-th accepted cell on:
\* s = [best_score, best_play], best_play = NoPlay standing for None
RECURSIVE BestPlay(_, _, _, _, _, _)
BestPlay(board, player, depth, plays, k, s) ==
    IF k > Len(plays) THEN s
    ELSE BestPlay(board, player, depth, plays, k + 1,
            Better(s,
                   negamax(play_at(board, plays[k], player).cells, depth, player),
                   plays[k]))

\* match best_play: the board after, the boolean returned, the move played
PlayBest(board, player, s) ==
    IF s.best_play # NoPlay
    THEN [cells |-> play_at(board, s.best_play, player).cells,
          passed |-> FALSE, play |-> s.best_play]
    ELSE [cells |-> board, passed |-> TRUE, play |-> NoPlay]

machine_play(board, player) ==
    PlayBest(board, player,
             BestPlay(board, player, MachineDepth, Plays(board, player), 1,
                      [best_score |-> I64_MIN, best_play |-> NoPlay]))

-----------------------------------------------------------------------------
(* Specification Spec: a caller driving the board through play_at *)

NoCall == [op |-> "none"]

\* the locals of main before the loop, machine_player apart
Start ==
    /\ cells = NewBoard
    /\ before = NewBoard
    /\ last = NoCall
    /\ ret = FALSE
    /\ moves = 0
    /\ turns = 0
    /\ current_player = "Black"
    /\ game_over = FALSE
    /\ last_passed = FALSE
    /\ count = 4

Init == Start /\ machine_player = "Black" /\ overflow_checks = FALSE

\* The last operation left the board as it was: the caller's next operation sees
\* the board its previous one saw, so the runs are followed up to such a state.
Settled == last.op # "none" /\ cells = before

\* the caller's board and the value returned after play_at returned r
PlayAtReturns(r) ==
    /\ cells' = r.cells
    /\ ret' = r.played
    /\ moves' = IF r.cells # cells THEN moves + 1 ELSE moves
    /\ before' = cells

PlayAt(p, player) ==
    /\ ~Settled
    /\ moves < MaxMoves
    /\ PlayAtReturns(play_at(cells, p, player))
    /\ last' = [op |-> "play_at", pos |-> p, player |-> player]
    /\ UNCHANGED driverVars

Next == \E p \in Positions, player \in Player : PlayAt(p, player)

Spec == Init /\ [][Next]_vars

-----------------------------------------------------------------------------
(* Specification SpecSearch: a board set up by play_at, then searched *)

\* the board is as play_at calls left it
SetUp == last.op \in {"none", "play_at"} /\ ~Settled

SetUpPlay(p, player) ==
    /\ SetUp
    /\ moves + 1 < SearchPlies
    /\ PlayAtReturns(play_at(cells, p, player))
    /\ last' = [op |-> "play_at", pos |-> p, player |-> player]
    /\ UNCHANGED driverVars

Windows == {w \in WindowEdges \X WindowEdges : w[1] < w[2]}

NegamaxAB(depth, alpha, beta, player) ==
    /\ SetUp
    /\ ret' = negamax_ab(cells, depth, alpha, beta, player)
    /\ last' = [op |-> "negamax_ab", depth |-> depth, alpha |-> alpha,
                beta |-> beta, player |-> player]
    /\ before' = cells
    /\ UNCHANGED <<cells, moves>>
    /\ UNCHANGED driverVars

Negamax(depth, player) ==
    /\ SetUp
    /\ ret' = negamax(cells, depth, player)
    /\ last' = [op |-> "negamax", depth |-> depth, alpha |-> I32_MIN,
                beta |-> I32_MAX, player |-> player]
    /\ before' = cells
    /\ UNCHANGED <<cells, moves>>
    /\ UNCHANGED driverVars

\* the caller's board and the value returned after machine_play returned r
MachinePlayReturns(r, player) ==
    /\ cells' = r.cells
    /\ ret' = r.passed
    /\ last' = [op |-> "machine_play", player |-> player, play |-> r.play]
    /\ moves' = IF r.cells # cells THEN moves + 1 ELSE moves
    /\ before' = cells

MachinePlay(player) ==
    /\ SetUp
    /\ moves + MachineDepth <= SearchPlies
    /\ MachinePlayReturns(machine_play(cells, player), player)
    /\ UNCHANGED driverVars

NextSearch ==
    \/ \E p \in Positions, player \in Player : SetUpPlay(p, player)
    \/ \E w \in Windows, player \in Player :
          NegamaxAB(SearchPlies - moves, w[1], w[2], player)
    \/ \E player \in Player : Negamax(SearchPlies - moves, player)

SpecSearch == Init /\ [][NextSearch]_vars

-----------------------------------------------------------------------------
(* Specification SpecMachine: a board set up by play_at, then machine_play *)

NextMachine ==
    \/ \E p \in Positions, player \in Player : SetUpPlay(p, player)
    \/ \E player \in Player : MachinePlay(player)

SpecMachine == Init /\ [][NextMachine]_vars

-----------------------------------------------------------------------------
(* Commands and the driver *)

\* the lines the human may enter, as the bytes read_line returns
BLACK_LINE == <<98, 108, 97, 99, 107, 10>>
WHITE_LINE == <<119, 104, 105, 116, 101, 10>>
DRAW_LINE == <<100, 114, 97, 119, 10>>
PASS_LINE == <<112, 97, 115, 115, 10>>

\* u8 - u8 where it wraps; with overflow checks it panics on a byte below the
\* subtrahend, see ParseOverflows
U8Sub(a, b) == (a - b + 256) % 256

\* u8 as i8
AsI8(u) == IF u >= 128 THEN u - 256 ELSE u

ParseError == [tag |-> "Err"]

\* the arm [x, y, 10] of Command::parse
ParseMove(pos) ==
    IF is_valid(pos) THEN [tag |-> "PlayAt", pos |-> pos] ELSE ParseError

\* Command::parse: Victory(None) is the winner "None"
parse(cmd) ==
    IF cmd = BLACK_LINE THEN [tag |-> "Victory", winner |-> "Black"]
    ELSE IF cmd = WHITE_LINE THEN [tag |-> "Victory", winner |-> "White"]
    ELSE IF cmd = DRAW_LINE THEN [tag |-> "Victory", winner |-> "None"]
    ELSE IF cmd = PASS_LINE THEN [tag |-> "Pass"]
    ELSE IF Len(cmd) = 3 /\ cmd[3] = 10
         THEN ParseMove([x |-> AsI8(U8Sub(cmd[1], 97)),
                         y |-> AsI8(U8Sub(cmd[2], 49))])
         ELSE ParseError

\* Command::parse reaches x - b'a' and y - b'1' with a byte below 'a' or '1':
\* the subtraction overflows
ParseOverflows(cmd) ==
    /\ cmd \notin {BLACK_LINE, WHITE_LINE, DRAW_LINE, PASS_LINE}
    /\ Len(cmd) = 3
    /\ cmd[3] = 10
    /\ (cmd[1] < 97 \/ cmd[2] < 49)

\* the table MOVES with files and ranks exchanged
MOVES_transposed == [i \in 0..63 |-> <<97 + (i \div 8), 49 + (i % 8), 10>>]

\* the table MOVES: entry x + 8 * y is the file 'a' + x, the rank '1' + y and
\* a newline
MOVES == [i \in 0..63 |-> <<97 + (i % 8), 49 + (i \div 8), 10>>]

\* Command::stringify
stringify(cmd) ==
    IF cmd.tag = "PlayAt"
    THEN IF ~is_valid(cmd.pos) THEN PASS_LINE
         ELSE MOVES[cmd.pos.x + 8 * cmd.pos.y]
    ELSE IF cmd.tag = "Pass" THEN PASS_LINE
    ELSE IF cmd.winner = "Black" THEN BLACK_LINE
    ELSE IF cmd.winner = "White" THEN WHITE_LINE
    ELSE DRAW_LINE

\* !board.play_at(pos, player)
HumanPlays(r, pos) ==
    [cells |-> r.cells, passed |-> ~r.played, play |-> pos]

\* match cmd of human_play: the board after, the boolean returned, the cell
HumanCommand(board, player, cmd) ==
    IF cmd.tag = "Err" THEN [cells |-> board, passed |-> TRUE, play |-> NoPlay]
    ELSE IF cmd.tag = "Victory"
         THEN [cells |-> board, passed |-> TRUE, play |-> NoPlay]
    ELSE IF cmd.tag = "Pass"
         THEN [cells |-> board, passed |-> FALSE, play |-> NoPlay]
    ELSE HumanPlays(play_at(board, cmd.pos, player), cmd.pos)

human_play(board, player, input) == HumanCommand(board, player, parse(input))

\* the lines of the 64 moves, and three lines that are no command: the empty
\* line, "z9" and "11"
MoveLines == {<<97 + p.x, 49 + p.y, 10>> : p \in Positions}
BadLines == {<<10>>, <<122, 57, 10>>, <<49, 49, 10>>}
HumanLines ==
    MoveLines \cup {BLACK_LINE, WHITE_LINE, DRAW_LINE, PASS_LINE} \cup BadLines

InitDriver ==
    Start /\ machine_player \in Player /\ overflow_checks \in BOOLEAN

\* the program has panicked: main runs no further
Panicked == last.op = "human_play" /\ last.panicked

\* the body of the loop of main after machine_play or human_play returned r
EndTurn(r, op, input) ==
    /\ cells' = r.cells
    /\ ret' = r.passed
    /\ before' = cells
    /\ last' = [op |-> op, player |-> current_player, input |-> input,
                play |-> r.play, last_passed |-> last_passed,
                panicked |-> FALSE]
    /\ count' = IF ~r.passed THEN count + 1 ELSE count
    /\ game_over' = ((r.passed /\ last_passed)
                     \/ (IF ~r.passed THEN count + 1 ELSE count) = 64)
    /\ last_passed' = r.passed
    /\ current_player' = opponent(current_player)
    /\ turns' = turns + 1
    /\ UNCHANGED <<machine_player, moves, overflow_checks>>

\* human_play panics in Command::parse: the iteration begun is not completed
Panic(input) ==
    /\ last' = [op |-> "human_play", player |-> current_player,
                input |-> input, play |-> NoPlay, last_passed |-> last_passed,
                panicked |-> TRUE]
    /\ before' = cells
    /\ turns' = turns + 1
    /\ UNCHANGED <<cells, ret, moves, current_player, machine_player,
                   game_over, last_passed, count, overflow_checks>>

\* an iteration of the loop in which the machine plays
MachineStep ==
    /\ ~game_over
    /\ ~Panicked
    /\ current_player = machine_player
    /\ EndTurn(machine_play(cells, current_player), "machine_play", <<>>)

MachineTurn == turns < MaxTurns /\ MachineStep

\* an iteration of the loop in which the human enters the line input
HumanStep(input) ==
    /\ ~game_over
    /\ ~Panicked
    /\ current_player # machine_player
    /\ IF overflow_checks /\ ParseOverflows(input)
       THEN Panic(input)
       ELSE EndTurn(human_play(cells, current_player, input),
                    "human_play", input)

HumanTurn(input) == turns < MaxTurns /\ HumanStep(input)

NextDriver ==
    \/ MachineTurn
    \/ \E input \in HumanLines : HumanTurn(input)

SpecDriver == InitDriver /\ [][NextDriver]_vars

-----------------------------------------------------------------------------
(* Specification SpecGame: the loop of main run to its end. The human enters *)
(* any line in the first OpeningTurns iterations and afterwards lines that  *)
(* leave the board as it is.                                                *)

OpeningTurns == 2

\* pass, the empty line, draw and "11"
GameLines == {PASS_LINE, <<10>>, DRAW_LINE, <<49, 49, 10>>}

GameMachineTurn == MachineStep

GameHumanTurn(input) ==
    /\ turns >= OpeningTurns => input \in GameLines
    /\ HumanStep(input)

NextGame ==
    \/ GameMachineTurn
    \/ \E input \in HumanLines : GameHumanTurn(input)

SpecGame == InitDriver /\ [][NextGame]_vars

-----------------------------------------------------------------------------
(* Specification SpecNotation: lines parsed and commands stringified *)

\* positions one step around the board as well
WidePositions == [x : -1..8, y : -1..8]

Commands ==
    {[tag |-> "PlayAt", pos |-> p] : p \in WidePositions}
    \cup {[tag |-> "Pass"]}
    \cup {[tag |-> "Victory", winner |-> w] : w \in {"Black", "White", "None"}}

Parse(line) ==
    /\ ret' = parse(line)
    /\ last' = [op |-> "parse", input |-> line]
    /\ UNCHANGED <<cells, before, moves>>
    /\ UNCHANGED driverVars

Stringify(cmd) ==
    /\ ret' = stringify(cmd)
    /\ last' = [op |-> "stringify", cmd |-> cmd]
    /\ UNCHANGED <<cells, before, moves>>
    /\ UNCHANGED driverVars

NextNotation ==
    \/ \E line \in HumanLines : Parse(line)
    \/ \E cmd \in Commands : Stringify(cmd)

SpecNotation == Init /\ [][NextNotation]_vars

-----------------------------------------------------------------------------
(* Properties of the board, checked under Spec *)

Called == last.op = "play_at"

Directions == {PLAY_DIRECTIONS[k] : k \in 1..Len(PLAY_DIRECTIONS)}

\* the i-th cell from p in direction d
Step(p, d, i) == [x |-> p.x + i * d.dx, y |-> p.y + i * d.dy]

OnBoard(p) == p.x \in Coord /\ p.y \in Coord

\* from p in direction d: exactly n discs of the opponent, then a disc of player
RunTo(b, p, d, player, n) ==
    /\ \A i \in 1..n :
          OnBoard(Step(p, d, i)) /\ player_at(b, Step(p, d, i)) = opponent(player)
    /\ OnBoard(Step(p, d, n + 1))
    /\ player_at(b, Step(p, d, n + 1)) = player

RunLengths == 1..6

\* the number of discs a move of player at p captures in direction d
RunLen(b, p, d, player) ==
    IF \E n \in RunLengths : RunTo(b, p, d, player, n)
    THEN CHOOSE n \in RunLengths : RunTo(b, p, d, player, n)
    ELSE 0

RECURSIVE BridgeSumFrom(_, _, _, _)
BridgeSumFrom(b, p, player, k) ==
    IF k > Len(PLAY_DIRECTIONS) THEN 0
    ELSE RunLen(b, p, PLAY_DIRECTIONS[k], player) + BridgeSumFrom(b, p, player, k + 1)

\* the discs captured over all directions
BridgeSum(b, p, player) == BridgeSumFrom(b, p, player, 1)

Total(b) == player_score(b, "Black") + player_score(b, "White")

\* C1: on every board reached by play_at calls no cell has its bit set in both
\* players' bitmasks.
OccupancyExclusive ==
    \A p \in Positions :
        ~(BitSet(cells["Black"][p.y], p.x) /\ BitSet(cells["White"][p.y], p.x))

\* a disc of the opponent was flipped by the last call
C1_Witness ==
    /\ Called /\ ret
    /\ \E p \in Positions :
          /\ player_at(before, p) = opponent(last.player)
          /\ player_at(cells, p) = last.player

\* C2: a play_at that returns false leaves both bitmasks as they were.
IdempotentRejection == (Called /\ ~ret) => cells = before

\* a rejected call on an empty cell next to a disc of the opponent
C2_Witness ==
    /\ Called /\ ~ret
    /\ player_at(before, last.pos) = "None"
    /\ \E d \in Directions :
          /\ OnBoard(Step(last.pos, d, 1))
          /\ player_at(before, Step(last.pos, d, 1)) = opponent(last.player)

\* C3: when, from an empty origin, a direction holds a run of one or more discs
\* of the opponent followed by a disc of the mover, play_at returns true, the
\* whole run becomes the mover's and no cell beyond the closing disc changes.
CaptureCorrectness ==
    (Called /\ player_at(before, last.pos) = "None") =>
        \A d \in Directions, n \in RunLengths :
            RunTo(before, last.pos, d, last.player, n) =>
                /\ ret
                /\ \A i \in 1..n :
                      player_at(cells, Step(last.pos, d, i)) = last.player
                /\ \A j \in (n + 2)..7 :
                      OnBoard(Step(last.pos, d, j)) =>
                          player_at(cells, Step(last.pos, d, j))
                              = player_at(before, Step(last.pos, d, j))

\* a capture in a direction that has a cell beyond the closing disc
C3_Witness ==
    /\ Called /\ ret
    /\ player_at(before, last.pos) = "None"
    /\ \E d \in Directions, n \in RunLengths :
          /\ RunTo(before, last.pos, d, last.player, n)
          /\ OnBoard(Step(last.pos, d, n + 2))

\* C4 as stated: the sum of the scores is at most 64, grows by 1 + |bridge|
\* over all directions on an accepted move and is unchanged on a rejected one.
Conservation ==
    /\ Total(cells) <= 64
    /\ (Called /\ ret) =>
          Total(cells) = Total(before) + 1 + BridgeSum(before, last.pos, last.player)
    /\ (Called /\ ~ret) => Total(cells) = Total(before)

\* C4 amended: the sum of the scores is at most 64; on an accepted move the
\* mover's score grows by 1 + |bridge| over all directions, the opponent's
\* falls by |bridge|, so the sum grows by exactly 1; a rejected move leaves
\* the sum unchanged.
ConservationAmended ==
    /\ Total(cells) <= 64
    /\ (Called /\ ret) =>
          /\ player_score(cells, last.player)
                = player_score(before, last.player) + 1
                  + BridgeSum(before, last.pos, last.player)
          /\ player_score(cells, opponent(last.player))
                = player_score(before, opponent(last.player))
                  - BridgeSum(before, last.pos, last.player)
          /\ Total(cells) = Total(before) + 1
    /\ (Called /\ ~ret) => Total(cells) = Total(before)

\* an accepted move capturing in more than one direction
C4_Witness ==
    /\ Called /\ ret
    /\ \E d1, d2 \in Directions :
          /\ d1 # d2
          /\ RunLen(before, last.pos, d1, last.player) > 0
          /\ RunLen(before, last.pos, d2, last.player) > 0

\* C7: play_at on an occupied cell finds no bridge in any of the 8 directions,
\* returns false and leaves the board unchanged.
OccupiedRejection ==
    (Called /\ player_at(before, last.pos) # "None") =>
        /\ \A k \in 1..Len(PLAY_DIRECTIONS) :
              find_bridge_candidate(before, EmptyBuffer, last.pos,
                                    PLAY_DIRECTIONS[k], last.player, FALSE).len = 0
        /\ ~ret
        /\ cells = before

\* a call on an occupied cell from which a direction holds a capturable run
C7_Witness ==
    /\ Called /\ ~ret
    /\ player_at(before, last.pos) # "None"
    /\ \E d \in Directions, n \in RunLengths :
          RunTo(before, last.pos, d, last.player, n)

-----------------------------------------------------------------------------
(* Properties of the search, checked under SpecSearch *)

Searched == last.op \in {"negamax", "negamax_ab"}

\* the greatest element of a non-empty set of integers
Greatest(S) == CHOOSE v \in S : \A u \in S : u <= v

AcceptedCells(b, player) == {q \in Positions : play_at(b, q, player).played}

\* negamax over every accepted cell, without window and without cutoff
RECURSIVE Exhaustive(_, _, _)
Exhaustive(board, depth, player) ==
    IF depth = 0 \/ AcceptedCells(board, player) = {}
    THEN heuristic(board, player)
    ELSE Greatest({ -Exhaustive(play_at(board, p, player).cells, depth - 1,
                                opponent(player)) :
                    p \in AcceptedCells(board, player) })

InWindow(v, alpha, beta) == alpha <= v /\ v <= beta

\* C5: negamax (the full window) returns the value of the exhaustive search
\* of the same depth, and so does negamax_ab with any window alpha < beta
\* that contains that value.
AlphaBetaEquivalence ==
    Searched =>
        LET v == Exhaustive(cells, last.depth, last.player)
        IN InWindow(v, last.alpha, last.beta) => ret = v

\* a search with a tight window holding the value, in which the call on the
\* first child, cut by the window passed down, returns another value than the
\* exhaustive search of that child
C5_Witness ==
    /\ last.op = "negamax_ab"
    /\ last.depth >= 2
    /\ InWindow(Exhaustive(cells, last.depth, last.player), last.alpha, last.beta)
    /\ Len(Plays(cells, last.player)) > 0
    /\ negamax_ab(play_at(cells, Plays(cells, last.player)[1], last.player).cells,
                  last.depth - 1, -last.beta, -last.alpha, opponent(last.player))
         # Exhaustive(play_at(cells, Plays(cells, last.player)[1], last.player).cells,
                      last.depth - 1, opponent(last.player))

NoAcceptedCell(b, player) ==
    \A p \in Positions : ~play_at(b, p, player).played

\* C8: on a board where play_at is rejected on all 64 cells, negamax_ab with
\* depth > 0 and any window returns heuristic(board, player).
TerminalFallback ==
    (Searched /\ last.depth > 0 /\ NoAcceptedCell(cells, last.player))
        => ret = heuristic(cells, last.player)

\* a search of a board without accepted cell whose heuristic lies outside the
\* window
C8_Witness ==
    /\ last.op = "negamax_ab"
    /\ last.depth > 0
    /\ NoAcceptedCell(cells, last.player)
    /\ ~InWindow(heuristic(cells, last.player), last.alpha, last.beta)

RECURSIVE CallsOf(_, _, _, _, _)
RECURSIVE LoopCalls(_, _, _, _, _, _, _)

\* the calls made by the rest of the loop, s being the state after the body
\* for the k-th accepted cell
LoopNext(board, depth, beta, player, plays, k, s) ==
    IF s.alpha >= beta
    THEN {}
    ELSE LoopCalls(board, depth, beta, player, plays, k + 1, s)

\* the calls made by the loop 'forEachNodes from the k-th accepted cell on,
\* each with its arguments alpha and beta and the value it returns
LoopCalls(board, depth, beta, player, plays, k, s) ==
    IF k > Len(plays) THEN {}
    ELSE CallsOf(play_at(board, plays[k], player).cells, depth - 1,
                 -beta, -s.alpha, opponent(player))
         \cup LoopNext(board, depth, beta, player, plays, k,
                 Visit(s, negamax_ab(play_at(board, plays[k], player).cells,
                                     depth - 1, -beta, -s.alpha,
                                     opponent(player))))

\* the call negamax_ab(board, depth, alpha, beta, player) and the calls it
\* makes, recursively
CallsOf(board, depth, alpha, beta, player) ==
    {[depth |-> depth, alpha |-> alpha, beta |-> beta,
      value |-> negamax_ab(board, depth, alpha, beta, player)]}
    \cup IF depth = 0 THEN {}
         ELSE LoopCalls(board, depth, beta, player, Plays(board, player), 1,
                        [alpha |-> alpha, score |-> I32_MIN,
                         terminal_node |-> TRUE])

\* alpha and beta of the call c can be negated and its value is a difference
\* of scores
CallInBounds(c) ==
    /\ I32_MIN <= c.alpha /\ c.alpha <= -I32_MIN
    /\ I32_MIN <= c.beta /\ c.beta <= -I32_MIN
    /\ -64 <= c.value /\ c.value <= 64
    /\ c.value # I32_MIN

\* C17: in every call reachable from negamax(board, depth, player), alpha and
\* beta lie between i32::MIN and -i32::MIN, the value returned lies between
\* -64 and 64, and the initial score i32::MIN is never returned.
SearchValueBounds ==
    (last.op = "negamax") =>
        /\ ret \in -64..64
        /\ \A c \in CallsOf(cells, last.depth, last.alpha, last.beta,
                            last.player) : CallInBounds(c)

\* among the calls cs: one given beta = -i32::MIN, one given a beta that is a
\* score, and one of depth 0
MixedCalls(cs) ==
    /\ \E c \in cs : c.beta = -I32_MIN
    /\ \E c \in cs : c.beta \in -64..64 /\ c.alpha = -I32_MAX
    /\ \E c \in cs : c.depth = 0

C17_Witness ==
    /\ last.op = "negamax"
    /\ last.depth >= 2
    /\ MixedCalls(CallsOf(cells, last.depth, last.alpha, last.beta, last.player))

-----------------------------------------------------------------------------
(* Properties of machine_play, checked under SpecMachine *)

RowMajor(p) == 8 * p.y + p.x

\* the score machine_play gives to the move at p
MoveScore(b, p, player) ==
    negamax(play_at(b, p, player).cells, MachineDepth, player)

\* p is the earliest, in row-major order, of the accepted cells of greatest score
BestMove(b, p, player) ==
    LET score == [q \in AcceptedCells(b, player) |-> MoveScore(b, q, player)]
    IN /\ p \in DOMAIN score
       /\ \A q \in DOMAIN score :
             \/ score[q] < score[p]
             \/ score[q] = score[p] /\ RowMajor(p) <= RowMajor(q)

\* C6: machine_play reports a pass and leaves the board untouched exactly when
\* play_at is rejected on all 64 cells; otherwise it plays the accepted cell of
\* greatest negamax score, the earliest in row-major order among equals, and
\* the board is the board before with that one move applied.
MoveSelection ==
    (last.op = "machine_play") =>
        IF NoAcceptedCell(before, last.player)
        THEN ret /\ cells = before
        ELSE /\ ~ret
             /\ BestMove(before, last.play, last.player)
             /\ cells = play_at(before, last.play, last.player).cells

\* machine_play passing over an earlier accepted cell of lower score and
\* preferring its move to a later accepted cell of the same score
C6_Witness ==
    /\ last.op = "machine_play"
    /\ ~ret
    /\ \E q \in Positions :
          /\ play_at(before, q, last.player).played
          /\ RowMajor(q) < RowMajor(last.play)
          /\ MoveScore(before, q, last.player)
                < MoveScore(before, last.play, last.player)
    /\ \E q \in Positions :
          /\ play_at(before, q, last.player).played
          /\ RowMajor(q) > RowMajor(last.play)
          /\ MoveScore(before, q, last.player)
                = MoveScore(before, last.play, last.player)

-----------------------------------------------------------------------------
(* Properties of the driver, checked under SpecDriver *)

\* human_play was called and has returned
HumanPlayed == last.op = "human_play" /\ ~last.panicked

\* the line was no command, or a move play_at rejected
RejectedInput ==
    /\ HumanPlayed
    /\ \/ parse(last.input).tag = "Err"
       \/ /\ parse(last.input).tag = "PlayAt"
          /\ ~play_at(before, parse(last.input).pos, last.player).played

\* C9: after a malformed line or a move play_at rejects, the board is
\* unchanged and the same player is prompted again: the turn does not go to
\* the opponent and the input does not count as a pass.
RejectedInputReprompts ==
    RejectedInput =>
        /\ cells = before
        /\ current_player = last.player
        /\ ~last_passed

\* C10: whenever the human enters black, white or draw, game_over is set on
\* that turn, whatever the previous turn was.
VictoryEndsGame ==
    (HumanPlayed /\ parse(last.input).tag = "Victory") => game_over

-----------------------------------------------------------------------------
(* Further properties of the board, checked under Spec *)

\* the cell named by a file a..h (0..7) and a rank 1..8
Cell(file, rank) == [x |-> file, y |-> rank - 1]

c4 == Cell(2, 4)
d4 == Cell(3, 4)
e4 == Cell(4, 4)
d5 == Cell(3, 5)
e5 == Cell(4, 5)

\* the cells of b holding a disc of player
Discs(b, player) == {p \in Positions : player_at(b, p) = player}

\* the call is play_at(c4, Black) on the board of Board::new
FirstCapture ==
    /\ Called
    /\ before = NewBoard
    /\ last.pos = c4
    /\ last.player = "Black"

\* C11: the board of Board::new has Black exactly at d5 and e4, White exactly
\* at d4 and e5 and heuristic 0 for both players; play_at(c4, Black) on it
\* returns true, flips exactly d4 and gives the scores 4 and 1 and the
\* heuristic 3 for Black.
StartAndFirstCapture ==
    /\ (last.op = "none") =>
          /\ Discs(cells, "Black") = {d5, e4}
          /\ Discs(cells, "White") = {d4, e5}
          /\ heuristic(cells, "Black") = 0
          /\ heuristic(cells, "White") = 0
    /\ FirstCapture =>
          /\ ret
          /\ Discs(cells, "Black") = {d5, e4, c4, d4}
          /\ Discs(cells, "White") = {e5}
          /\ player_score(cells, "Black") = 4
          /\ player_score(cells, "White") = 1
          /\ heuristic(cells, "Black") = 3

C11_Witness == FirstCapture /\ ret /\ player_at(cells, d4) = "Black"

\* C13: on every board reached, heuristic(board, p) = -heuristic(board,
\* opponent(p)) for both players, heuristic being the difference of the scores.
HeuristicSymmetry ==
    \A p \in Player :
        /\ heuristic(cells, p) = -heuristic(cells, opponent(p))
        /\ heuristic(cells, p)
              = player_score(cells, p) - player_score(cells, opponent(p))

\* a board on which the heuristic is not 0
C13_Witness ==
    /\ Called /\ ret
    /\ heuristic(cells, "Black") > 0
    /\ heuristic(cells, "White") < 0

\* the slice a call of find_bridge_candidate returned, as a sequence
SliceOf(br) == [i \in 1..br.len |-> br.buf[i - 1]]

\* the bridge of the k-th direction scanned on the board b, played being false
BridgeOn(b, p, player, k) ==
    SliceOf(find_bridge_candidate(b, EmptyBuffer, p, PLAY_DIRECTIONS[k],
                                  player, FALSE))

\* the body of the loop of play_at for one direction, br being the bridge
\* found: the state [cells, played, buffer] after it
ScanStep(s, br, p, player) ==
    IF br.len > 0
    THEN [cells |-> FlipBridge(set_cell(s.cells, p, player),
                               br.buf, br.len, 0, player),
          played |-> TRUE, buffer |-> br.buf]
    ELSE [s EXCEPT !.buffer = br.buf]

\* the states of play_at when its loop reaches the directions k, k + 1, ...
\* and when it ends, s being the state at the k-th
RECURSIVE ScanStates(_, _, _, _)
ScanStates(s, p, player, k) ==
    IF k > Len(PLAY_DIRECTIONS) THEN <<s>>
    ELSE <<s>> \o ScanStates(
            ScanStep(s, find_bridge_candidate(s.cells, s.buffer, p,
                                              PLAY_DIRECTIONS[k], player,
                                              s.played),
                     p, player),
            p, player, k + 1)

\* the states of the loop of play_at(p, player) on the board b
Scan(b, p, player) ==
    ScanStates([cells |-> b, played |-> FALSE, buffer |-> EmptyBuffer],
               p, player, 1)

\* the bridge play_at finds in its k-th direction, st being the states of its
\* loop
BridgeScanned(st, p, player, k) ==
    SliceOf(find_bridge_candidate(st[k].cells, st[k].buffer, p,
                                  PLAY_DIRECTIONS[k], player, st[k].played))

\* the bridges found on the board b, one for each direction
Bridges(b, p, player) ==
    << BridgeOn(b, p, player, 1), BridgeOn(b, p, player, 2),
       BridgeOn(b, p, player, 3), BridgeOn(b, p, player, 4),
       BridgeOn(b, p, player, 5), BridgeOn(b, p, player, 6),
       BridgeOn(b, p, player, 7), BridgeOn(b, p, player, 8) >>

\* the cells of the bridges brs
BridgeCells(brs) ==
    UNION {{brs[k][i] : i \in 1..Len(brs[k])} : k \in DOMAIN brs}

RECURSIVE SetCells(_, _, _)
SetCells(b, ps, player) ==
    IF ps = {} THEN b
    ELSE SetCells(set_cell(b, CHOOSE q \in ps : TRUE, player),
                  ps \ {CHOOSE q \in ps : TRUE}, player)

\* the reference: the origin tested once and every bridge taken on the board
\* before the move (the cells bs), then the origin and the bridges set to the
\* mover
ReferenceOn(b, p, player, bs) ==
    IF player_at(b, p) # "None" \/ bs = {}
    THEN [cells |-> b, played |-> FALSE]
    ELSE [cells |-> SetCells(b, {p} \cup bs, player), played |-> TRUE]

\* the bridges the loop of play_at finds in the directions k, k + 1, ...,
\* s being its state at the k-th
RECURSIVE ScanBridges(_, _, _, _)
ScanBridgesFrom(s, br, p, player, k) ==
    <<SliceOf(br)>> \o ScanBridges(ScanStep(s, br, p, player), p, player, k + 1)

ScanBridges(s, p, player, k) ==
    IF k > Len(PLAY_DIRECTIONS) THEN <<>>
    ELSE ScanBridgesFrom(s, find_bridge_candidate(s.cells, s.buffer, p,
                                                  PLAY_DIRECTIONS[k], player,
                                                  s.played),
                         p, player, k)

\* the bridges the loop of play_at(p, player) finds on the board b
Scanned(b, p, player) ==
    ScanBridges([cells |-> b, played |-> FALSE, buffer |-> EmptyBuffer],
                p, player, 1)

\* the outcome of the call and the bridges of its loop are those of the
\* bridges brs taken on the board before the move
SameAsReference(brs) ==
    /\ [cells |-> cells, played |-> ret]
          = ReferenceOn(before, last.pos, last.player, BridgeCells(brs))
    /\ player_at(before, last.pos) = "None" =>
          Scanned(before, last.pos, last.player) = brs

\* C14: the board and the value play_at yields are those of the reference,
\* and the bridge found in every direction is the one found on the board
\* before the move with played false, as long as the origin was empty.
ScansIndependent ==
    Called => SameAsReference(Bridges(before, last.pos, last.player))

\* two bridges scanned in the states st, the later one with played true and
\* the origin set
LaterBridge(st, p, player) ==
    \E k1, k2 \in 1..Len(PLAY_DIRECTIONS) :
        /\ k1 < k2
        /\ Len(BridgeScanned(st, p, player, k1)) > 0
        /\ st[k2].played
        /\ player_at(st[k2].cells, p) = player
        /\ Len(BridgeScanned(st, p, player, k2)) > 0

\* a move with a bridge in a direction scanned after a first bridge was
\* committed, whose loop ends on the board play_at yields
C14_Witness ==
    /\ Called /\ ret
    /\ Scan(before, last.pos, last.player)[Len(PLAY_DIRECTIONS) + 1].cells = cells
    /\ LaterBridge(Scan(before, last.pos, last.player), last.pos, last.player)

\* br, returned by find_bridge_candidate(b, _, p, d, player, _), is empty, or
\* ends on a cell in range holding a disc of player after n or more cells
\* from p on, each holding a disc of the opponent
ValidBridge(br, b, p, d, player, n) ==
    br.len > 0 =>
        /\ is_valid(br.buf[br.len - 1])
        /\ player_at(b, br.buf[br.len - 1]) = player
        /\ br.len - 1 >= n
        /\ \A i \in 0..(br.len - 2) :
              /\ br.buf[i] = Step(p, d, i + 1)
              /\ player_at(b, br.buf[i]) = opponent(player)

\* the calls of find_bridge_candidate from the origin of the last play_at, on
\* the board before it, return bridges valid with the threshold n
ValidBridges(n) ==
    Called =>
        \A k \in 1..Len(PLAY_DIRECTIONS), played \in BOOLEAN :
            ValidBridge(find_bridge_candidate(before, EmptyBuffer, last.pos,
                                              PLAY_DIRECTIONS[k], last.player,
                                              played),
                        before, last.pos, PLAY_DIRECTIONS[k], last.player, n)

\* C15 as stated: a non-empty bridge ends on a cell in range occupied by the
\* mover, with at least 2 opponent cells collected before it.
BridgeThreshold == ValidBridges(2)

\* C15 amended: a non-empty bridge ends on a cell in range occupied by the
\* mover, with at least 1 opponent cell collected before it; the slice holds
\* the opponent cells and the terminal cell, so its length is at least 2.
BridgeThresholdAmended == ValidBridges(1)

\* a non-empty bridge with exactly one opponent cell collected
C15_Witness ==
    /\ Called
    /\ \E k \in 1..Len(PLAY_DIRECTIONS) :
          find_bridge_candidate(before, EmptyBuffer, last.pos,
                                PLAY_DIRECTIONS[k], last.player, FALSE).len = 2

\* the state [pos, buf, length] in which the while loop of
\* find_bridge_candidate(b, EmptyBuffer, p, d, player, _) ends
WalkEnd(b, p, d, player) ==
    BridgeWalk(b, d, player,
               [pos |-> neighbor(p, d),
                buf |-> [EmptyBuffer EXCEPT ![0] = neighbor(p, d)],
                length |-> 1])

\* the walk ending in w wrote the buffer at the indices 0..w.length - 1, all
\* within the 8 slots, and every cell it stepped over, player_at having
\* answered for it, is in range
WalkInRange(w) ==
    /\ w.length - 1 <= 7
    /\ \A i \in 0..(w.length - 2) : is_valid(w.buf[i])

\* every position of the slice br, handed to set_cell, is in range
SliceInRange(br) == \A i \in 0..(br.len - 1) : is_valid(br.buf[i])

\* the positions one step off the board
OffBoard == WidePositions \ Positions

\* C16: in the calls of find_bridge_candidate on every board reached, from
\* every origin, the ones one step off the board included, and in every
\* direction, player_at and set_cell get positions in range only and the
\* buffer of 8 slots is written at indices up to 7: the walk stays in range up
\* to its terminal cell, the slice returned holds cells in range only, and an
\* origin off the board yields the empty slice and an untouched buffer.
NoOutOfRangeAccess ==
    /\ Called =>
          \A k \in 1..Len(PLAY_DIRECTIONS) :
              /\ WalkInRange(WalkEnd(before, last.pos, PLAY_DIRECTIONS[k],
                                     last.player))
              /\ SliceInRange(find_bridge_candidate(
                                 before, EmptyBuffer, last.pos,
                                 PLAY_DIRECTIONS[k], last.player, FALSE))
    /\ (Called /\ ret) =>
          \A p \in OffBoard, k \in 1..Len(PLAY_DIRECTIONS), player \in Player :
              find_bridge_candidate(cells, EmptyBuffer, p, PLAY_DIRECTIONS[k],
                                    player, FALSE)
                 = [buf |-> EmptyBuffer, len |-> 0]

\* a call from an origin on the edge: a walk starts on a scan position off
\* the board, and another walk steps over a disc of the opponent
C16_Witness ==
    /\ Called
    /\ \E k \in 1..Len(PLAY_DIRECTIONS) :
          /\ WalkEnd(before, last.pos, PLAY_DIRECTIONS[k], last.player).length = 1
          /\ ~is_valid(WalkEnd(before, last.pos, PLAY_DIRECTIONS[k],
                               last.player).pos)
    /\ \E k \in 1..Len(PLAY_DIRECTIONS) :
          WalkEnd(before, last.pos, PLAY_DIRECTIONS[k], last.player).length > 1

\* C20: when play_at returns true the origin was empty and is the mover's, no
\* occupied cell becomes empty, every cell whose occupant changes is the
\* mover's afterwards, and the number of discs grows by exactly 1.
SuccessfulMoveEffect ==
    (Called /\ ret) =>
        /\ player_at(before, last.pos) = "None"
        /\ player_at(cells, last.pos) = last.player
        /\ \A p \in Positions :
              /\ player_at(before, p) # "None" => player_at(cells, p) # "None"
              /\ player_at(cells, p) # player_at(before, p)
                    => player_at(cells, p) = last.player
        /\ Total(cells) = Total(before) + 1

\* an accepted move that flips a disc and leaves another disc of the opponent
C20_Witness ==
    /\ Called /\ ret
    /\ \E p, q \in Positions :
          /\ player_at(before, p) = opponent(last.player)
          /\ player_at(cells, p) = last.player
          /\ player_at(before, q) = opponent(last.player)
          /\ player_at(cells, q) = opponent(last.player)

-----------------------------------------------------------------------------
(* Properties of the notation, checked under SpecNotation *)

ControlLines == {PASS_LINE, BLACK_LINE, WHITE_LINE, DRAW_LINE}

\* C12: parse(stringify(PlayAt(pos))) is PlayAt(pos) for every in-range pos;
\* stringify(parse(s)) = s for every line s of a file a-h, a rank 1-8 and a
\* newline; pass, black, white and draw go round both ways as well.
NotationRoundTrip ==
    /\ (last.op = "stringify"
          /\ (last.cmd.tag = "PlayAt" => is_valid(last.cmd.pos)))
          => parse(ret) = last.cmd
    /\ (last.op = "parse" /\ last.input \in MoveLines \cup ControlLines)
          => /\ ret.tag # "Err"
             /\ stringify(ret) = last.input

\* a move off the diagonal was stringified and parses back to itself
C12_Witness ==
    /\ last.op = "stringify"
    /\ last.cmd.tag = "PlayAt"
    /\ is_valid(last.cmd.pos)
    /\ last.cmd.pos.x # last.cmd.pos.y
    /\ ret = <<97 + last.cmd.pos.x, 49 + last.cmd.pos.y, 10>>
    /\ parse(ret) = last.cmd

\* C18: at the start of every iteration of the loop, count is the number of
\* discs on the board.
CountTracksDiscs == count = Total(cells)

\* the loop of main has stopped
Stopped == game_over \/ Panicked

\* the loop stops within 120 iterations and count stays within 64
DriverBounds ==
    /\ turns <= 120
    /\ count <= 64
    /\ turns = 120 => Stopped

\* C19: for every sequence of lines and every machine colour, the loop of
\* main reaches game_over within 120 turns and count never exceeds 64: the
\* loop does not stop otherwise than by game_over.
DriverTermination ==
    /\ DriverBounds
    /\ Stopped => game_over

====
